---- MODULE Spec2Model ----
(***************************************************************************)
(* A model of src/main.py of github-scraper: main() fetches the repository *)
(* record, prints it, then pages through commits, open issues, closed      *)
(* issues and contributors with get_entries_of_type_parallel, which asks   *)
(* for ten pages at a time with asyncio.gather, and prints the counts.     *)
(*                                                                         *)
(* Python tuples are 0-indexed and TLA+ tuples 1-indexed: the page result  *)
(* (status, body, content) has page[0] as page[1] here, page[1] as page[2] *)
(* and page[2] as page[3].                                                 *)
(*                                                                         *)
(* The coroutine http_get_with_aiohttp touches no shared variable, so one  *)
(* request is resolved in one step (Resolve); the ten requests of a round  *)
(* resolve in any order.  An exception of a request reaches the fetch in a *)
(* later turn of the event loop (GatherRaises) and the requests still      *)
(* pending go on until asyncio.run cancels them (RunEnds).  The            *)
(* diagnostics http_get_with_aiohttp prints are not part of the state; the *)
(* lines get_repo_data and main print are.                                 *)
(***************************************************************************)
EXTENDS Integers, Sequences, FiniteSets, TLC

VARIABLES
    repo,              \* what the remote API answers for BASEURL itself
    pc,                \* main's position
    repo_data,         \* main: repo_data
    output,            \* the lines printed by get_repo_data and main
    call,              \* which of main's four fetches is current (1..4)
    results,           \* main: all_commits, open_issues, closed_issues, contributors
    server,            \* what the remote API answers during the current fetch
    fpc,               \* position inside get_entries_of_type_parallel
    pages,             \* get_entries_of_type_parallel: pages (the cursor)
    all_entries,       \* get_entries_of_type_parallel: all_entries
    empty_page_found,  \* get_entries_of_type_parallel: empty_page_found
    inflight,          \* indexes (1..10) of the round's requests not yet resolved
    result_pages,      \* outcomes of the round's requests, by request index
    requested          \* every page request issued so far, in order of issue

vars == << repo, pc, repo_data, output, call, results, server, fpc, pages,
           all_entries, empty_page_found, inflight, result_pages, requested >>

mainVars == << repo, repo_data, output, call, results >>

(***************************************************************************)
(* Bounds of the model and constants of the program.                       *)
(***************************************************************************)
\* range(pages, pages + 10) and pages += 10
BatchSize == 10
\* largest number of leading data pages of a resource, one fetch on its own
MaxK == 15
\* largest number of entries in one page
MaxPerPage == 2
\* largest number of leading data pages of a resource, in a whole run of main
MaxKMain == 1
\* largest number of leading data pages of a resource, for the fetch under fairness
MaxKLive == 10

(***************************************************************************)
(* Optional values: Python's None and a present value.                     *)
(***************************************************************************)
None == [some |-> FALSE, val |-> << >>]

Some(v) == [some |-> TRUE, val |-> v]

\* Python truthiness of an optional list: None and [] are falsy
Truthy(x) == x.some /\ x.val # << >>

(***************************************************************************)
(* The remote API.  A resource answers its pages 1..K with data, every     *)
(* other page with `bad`, except that with `stray` page K+2, the page      *)
(* behind the first bad one, holds data too (its raw bytes unreadable).    *)
(* The bad kinds: an empty list; a body json.loads rejects (badjson), its  *)
(* bytes unreadable too (badjson_noread); a 200 answer for which           *)
(* response.json raises something else than JSONDecodeError, as a body     *)
(* not valid in its charset or a failure while the body is read            *)
(* (jsonraise); a 404; a 500; a request that fails (transport); a request  *)
(* that is never answered (timeout).                                       *)
(***************************************************************************)
BadKinds == { "empty", "badjson", "badjson_noread", "jsonraise", "http404",
              "http500", "transport", "timeout" }

\* the kinds that make a page request raise
RaisingKinds == { "jsonraise", "transport", "timeout" }

Servers(maxK, maxPerPage, kinds, strays) ==
    [ K : 0 .. maxK, bad : kinds, stray : strays, size : 1 .. maxPerPage ]

\* the entries of data page p holding n entries: entry j of page p is <<p, j>>
PageBody(p, n) == [ j \in 1 .. n |-> << p, j >> ]

\* the JSON document of an error answer, and the raw bytes of an answer
ErrorBody(p) == << << p, 0 >> >>

RawBytes(p) == << << p, -1 >> >>

Kind(s, p) ==
    IF p <= s.K THEN "data"
    ELSE IF s.stray /\ p = s.K + 2 THEN "data_noread"
    ELSE s.bad

\* what the request, response.json and response.read do for page p:
\* `transport` is session.get raising, which timeout=10 makes of a request
\* never answered too; json_exc is the exception of response.json
Response(s, p) ==
    LET k == Kind(s, p) IN
    [ answered  |-> k # "timeout",
      transport |-> k \in { "transport", "timeout" },
      status    |-> CASE k = "http404" -> 404
                      [] k = "http500" -> 500
                      [] k \in { "transport", "timeout" } -> 0
                      [] OTHER -> 200,
      json_ok   |-> k \notin { "badjson", "badjson_noread", "jsonraise" },
      json_exc  |-> CASE k \in { "badjson", "badjson_noread" } -> "JSONDecodeError"
                      [] k = "jsonraise" -> "other"
                      [] OTHER -> "none",
      read_ok   |-> k \notin { "data_noread", "badjson_noread" },
      body      |-> CASE k \in { "data", "data_noread" } -> PageBody(p, s.size)
                      [] k \in { "http404", "http500" } -> ErrorBody(p)
                      [] OTHER -> << >>,
      raw       |-> RawBytes(p) ]

(***************************************************************************)
(* http_get_with_aiohttp: the outcome of one page request.                 *)
(***************************************************************************)
Returned(status, response_json, response_content) ==
    [ raised |-> FALSE, value |-> << status, response_json, response_content >> ]

\* an exception leaving the coroutine
Raised == [ raised |-> TRUE, value |-> << 0, None, None >> ]

\* mutant: a non-200 answer is decoded and returned like a 200 answer
http_get_keeps_error_body(r) ==
    IF r.transport \/ r.json_exc = "other"
    THEN Raised
    ELSE Returned(r.status,
                  IF r.json_ok THEN Some(r.body) ELSE None,
                  IF r.read_ok THEN Some(r.raw) ELSE None)

http_get_with_aiohttp(r) ==
    IF r.transport
    THEN \* line 37 reads response, which session.get never bound:
         \* UnboundLocalError is raised inside the except block
         Raised
    ELSE IF r.status = 200
    THEN IF r.json_exc = "other"
         THEN \* line 44 catches json.decoder.JSONDecodeError only
              Raised
         ELSE Returned(r.status,
                       IF r.json_ok THEN Some(r.body) ELSE None,
                       IF r.read_ok THEN Some(r.raw) ELSE None)
    ELSE Returned(r.status, None, None)

(***************************************************************************)
(* get_entries_of_type_parallel                                            *)
(***************************************************************************)
\* mutant: the contributors are fetched first
CallsContributorsFirst ==
    << [ type |-> "contributors", state |-> "None" ],
       [ type |-> "commits", state |-> "None" ],
       [ type |-> "issues", state |-> "open" ],
       [ type |-> "issues", state |-> "closed" ] >>

\* main's four calls: the resource type and the state filter
Calls == << [ type |-> "commits", state |-> "None" ],
            [ type |-> "issues", state |-> "open" ],
            [ type |-> "issues", state |-> "closed" ],
            [ type |-> "contributors", state |-> "None" ] >>

NotDone == << -1, None, None >>

\* the outcome of a request that raised: gather holds an exception for it
Exc == << -2, None, None >>

\* entry of the function: url, all_entries = [], pages = 1, empty_page_found = False
EnterFetch ==
    /\ fpc' = "dispatch"
    /\ pages' = 1
    /\ all_entries' = << >>
    /\ empty_page_found' = FALSE
    /\ inflight' = {}
    /\ result_pages' = [ i \in 1 .. BatchSize |-> NotDone ]

\* mutant: the round starts one page late, range(pages + 1, pages + 11)
RoundRequestsOneLate(c, first) ==
    [ i \in 1 .. BatchSize |->
        [ type |-> Calls[c].type, state |-> Calls[c].state, page |-> first + i ] ]

\* the params of the round's requests: page i, and the state if any
RoundRequests(c, first) ==
    [ i \in 1 .. BatchSize |->
        [ type |-> Calls[c].type, state |-> Calls[c].state, page |-> first + i - 1 ] ]

\* lines 77-92: build the ten (url, params) and hand them to asyncio.gather
Dispatch ==
    /\ pc = "fetch"
    /\ fpc = "dispatch"
    /\ requested' = requested \o RoundRequests(call, pages)
    /\ inflight' = 1 .. BatchSize
    /\ result_pages' = [ i \in 1 .. BatchSize |-> NotDone ]
    /\ fpc' = "gather"
    /\ UNCHANGED << pc, mainVars, server, pages, all_entries, empty_page_found >>

\* the params of request i of the round in flight
RequestOf(i) == requested[Len(requested) - BatchSize + i]

\* mutant: a coroutine appends the entries of its own page as it resolves
ResolveAppends(i) ==
    /\ pc \in { "fetch", "unwinding" }
    /\ fpc \in { "gather", "raised" }
    /\ i \in inflight
    /\ LET o == http_get_with_aiohttp(Response(server, RequestOf(i).page)) IN
       /\ result_pages' = [ result_pages EXCEPT ![i] = IF o.raised THEN Exc ELSE o.value ]
       /\ all_entries' = IF o.raised THEN all_entries ELSE all_entries \o o.value[2].val
    /\ inflight' = inflight \ { i }
    /\ UNCHANGED << pc, fpc, mainVars, server, pages, empty_page_found, requested >>

\* mutant: the request is sent without a timeout, so one never answered hangs
ResolveWithoutTimeout(i) ==
    /\ pc \in { "fetch", "unwinding" }
    /\ fpc \in { "gather", "raised" }
    /\ i \in inflight
    /\ Kind(server, RequestOf(i).page) # "timeout"
    /\ LET o == http_get_with_aiohttp(Response(server, RequestOf(i).page)) IN
       result_pages' = [ result_pages EXCEPT ![i] = IF o.raised THEN Exc ELSE o.value ]
    /\ inflight' = inflight \ { i }
    /\ UNCHANGED << pc, fpc, mainVars, server, pages, all_entries, empty_page_found,
                    requested >>

\* one request of the round resolves: it returns its page result or raises.
\* The requests are tasks of the event loop: they go on resolving after one
\* of them has raised, and after the exception has left the fetch, for as
\* long as asyncio.run has not cancelled them
Resolve(i) ==
    /\ pc \in { "fetch", "unwinding" }
    /\ fpc \in { "gather", "raised" }
    /\ i \in inflight
    /\ LET o == http_get_with_aiohttp(Response(server, RequestOf(i).page)) IN
       result_pages' = [ result_pages EXCEPT ![i] = IF o.raised THEN Exc ELSE o.value ]
    /\ inflight' = inflight \ { i }
    /\ UNCHANGED << pc, fpc, mainVars, server, pages, all_entries, empty_page_found,
                    requested >>

\* line 85: gather (no return_exceptions) hands the first exception of a
\* request to the fetch, when the fetch is resumed; the fetch and main have
\* no handler, so the exception leaves the while loop and enters main's
\* `async with`.  The other requests are neither awaited nor cancelled
GatherRaises ==
    /\ pc = "fetch"
    /\ fpc = "gather"
    /\ \E i \in 1 .. BatchSize : result_pages[i] = Exc
    /\ fpc' = "raised"
    /\ pc' = "unwinding"
    /\ UNCHANGED << mainVars, server, pages, all_entries, empty_page_found, inflight,
                    result_pages, requested >>

\* line 95
PageIsTerminal(page) == page[1] # 200 \/ ~Truthy(page[2])

\* mutant: the scan stops at the first terminal page (a break in the loop)
ScanPageStopAtFirst(acc, page) ==
    IF acc.empty_page_found \/ PageIsTerminal(page)
    THEN [ acc EXCEPT !.empty_page_found = TRUE ]
    ELSE [ acc EXCEPT !.all_entries = @ \o page[2].val ]

\* mutant: the raw content page[2] is appended, not the body page[1]
ScanPageExtendsContent(acc, page) ==
    IF PageIsTerminal(page)
    THEN [ acc EXCEPT !.empty_page_found = TRUE ]
    ELSE [ acc EXCEPT !.all_entries = @ \o page[3].val ]

\* mutant: a page's entries are put in front of the aggregate
ScanPagePrepend(acc, page) ==
    IF PageIsTerminal(page)
    THEN [ acc EXCEPT !.empty_page_found = TRUE ]
    ELSE [ acc EXCEPT !.all_entries = page[2].val \o @ ]

\* lines 95-98: the body of the scan loop
ScanPage(acc, page) ==
    IF PageIsTerminal(page)
    THEN [ acc EXCEPT !.empty_page_found = TRUE ]
    ELSE [ acc EXCEPT !.all_entries = @ \o page[2].val ]

\* mutant: the entries of a round holding a terminal page are thrown away
RECURSIVE ScanPagesDropTerminalRound(_, _, _)
ScanPagesDropTerminalRound(rp, i, acc) ==
    IF \E j \in 1 .. Len(rp) : PageIsTerminal(rp[j])
    THEN [ acc EXCEPT !.empty_page_found = TRUE ]
    ELSE IF i > Len(rp) THEN acc
    ELSE ScanPagesDropTerminalRound(rp, i + 1,
             [ acc EXCEPT !.all_entries = @ \o rp[i][2].val ])

\* mutant: only the last page scanned decides whether the round is terminal
RECURSIVE ScanPagesLastPageDecides(_, _, _)
ScanPagesLastPageDecides(rp, i, acc) ==
    IF i > Len(rp) THEN acc
    ELSE ScanPagesLastPageDecides(rp, i + 1,
             IF PageIsTerminal(rp[i])
             THEN [ acc EXCEPT !.empty_page_found = (i = Len(rp)) ]
             ELSE [ acc EXCEPT !.all_entries = @ \o rp[i][2].val,
                               !.empty_page_found = FALSE ])

\* lines 94-98: for page in result_pages
RECURSIVE ScanPages(_, _, _)
ScanPages(rp, i, acc) ==
    IF i > Len(rp) THEN acc ELSE ScanPages(rp, i + 1, ScanPage(acc, rp[i]))

\* mutant: the cursor skips a page, pages += 11
NextCursorSkipsAPage(p) == p + BatchSize + 1

\* lines 100-103
NextCursor(p) == p + BatchSize

\* mutant: the results are scanned as soon as one request has resolved, and
\* the next round goes out while the others are still in flight
ScanRoundWithoutJoin ==
    /\ pc = "fetch"
    /\ fpc = "gather"
    /\ inflight # 1 .. BatchSize
    /\ LET done == SelectSeq(result_pages, LAMBDA page : page # NotDone)
           acc == ScanPages(done, 1,
                     [ all_entries |-> all_entries,
                       empty_page_found |-> empty_page_found ]) IN
       /\ all_entries' = acc.all_entries
       /\ empty_page_found' = acc.empty_page_found
       /\ IF ~acc.empty_page_found
          THEN /\ pages' = NextCursor(pages)
               /\ fpc' = "dispatch"
          ELSE /\ pages' = pages
               /\ fpc' = "returned"
    /\ UNCHANGED << pc, mainVars, server, inflight, result_pages, requested >>

\* gather has every result: scan them, then advance the cursor or leave the loop
ScanRound ==
    /\ pc = "fetch"
    /\ fpc = "gather"
    /\ inflight = {}
    /\ \A i \in 1 .. BatchSize : result_pages[i] # Exc
    /\ LET acc == ScanPages(result_pages, 1,
                     [ all_entries |-> all_entries,
                       empty_page_found |-> empty_page_found ]) IN
       /\ all_entries' = acc.all_entries
       /\ empty_page_found' = acc.empty_page_found
       /\ IF ~acc.empty_page_found
          THEN /\ pages' = NextCursor(pages)
               /\ fpc' = "dispatch"
          ELSE /\ pages' = pages
               /\ fpc' = "returned"
    /\ UNCHANGED << pc, mainVars, server, inflight, result_pages, requested >>

(***************************************************************************)
(* get_repo_data and main                                                  *)
(***************************************************************************)
RepoKinds == { "ok", "badjson", "http404", "http500", "transport" }

RepoFields == << "ID", "Node ID", "Name", "Full name", "Language", "Private" >>

\* mutant: the document is decoded and returned whatever the status
get_repo_data_ignores_status(k) ==
    CASE k \in { "ok", "http404", "http500" } ->
           [ raised |-> FALSE, value |-> Some(RepoFields), printed |-> << >> ]
      [] OTHER -> [ raised |-> TRUE, value |-> None, printed |-> << >> ]

\* get_repo_data: no try block, so a failed request or decode raises
get_repo_data(k) ==
    CASE k = "ok" -> [ raised |-> FALSE, value |-> Some(RepoFields), printed |-> << >> ]
      [] k = "http404" -> [ raised |-> FALSE, value |-> None,
                            printed |-> << << "Failed to retrieve repository data", 404 >> >> ]
      [] k = "http500" -> [ raised |-> FALSE, value |-> None,
                            printed |-> << << "Failed to retrieve repository data", 500 >> >> ]
      [] OTHER -> [ raised |-> TRUE, value |-> None, printed |-> << >> ]

\* line 146
GetRepoData ==
    /\ pc = "start"
    /\ LET o == get_repo_data(repo) IN
       IF o.raised
       THEN /\ pc' = "crashed"
            /\ UNCHANGED << repo_data, output >>
       ELSE /\ pc' = "summary"
            /\ repo_data' = o.value
            /\ output' = output \o o.printed
    /\ UNCHANGED << repo, call, results, server, fpc, pages, all_entries,
                    empty_page_found, inflight, result_pages, requested >>

\* lines 148-155
SummaryLines(rd) ==
    IF Truthy(rd)
    THEN << << "Repository Info:", 0 >> >> \o [ i \in 1 .. Len(rd.val) |-> << rd.val[i], 1 >> ]
    ELSE << >>

PrintSummary ==
    /\ pc = "summary"
    /\ output' = output \o SummaryLines(repo_data)
    /\ pc' = "call"
    /\ UNCHANGED << repo, repo_data, call, results, server, fpc, pages, all_entries,
                    empty_page_found, inflight, result_pages, requested >>

\* the resources main pages through in one run: up to MaxKMain pages of data
\* before an empty page, or no data and a 404 or a failing request
MainServers ==
    Servers(MaxKMain, 1, { "empty" }, { FALSE })
      \cup Servers(0, 1, { "http404", "transport" }, { FALSE })

\* lines 158, 160, 164, 168: main calls the fetch for its next resource
CallFetch ==
    /\ pc = "call"
    /\ server' \in MainServers
    /\ EnterFetch
    /\ pc' = "fetch"
    /\ UNCHANGED << mainVars, requested >>

\* the fetch returns all_entries to main
ReturnFetch ==
    /\ pc = "fetch"
    /\ fpc = "returned"
    /\ results' = [ results EXCEPT ![call] = Some(all_entries) ]
    /\ fpc' = "idle"
    /\ IF call < Len(Calls)
       THEN /\ call' = call + 1
            /\ pc' = "call"
       ELSE /\ call' = call
            /\ pc' = "print"
    /\ UNCHANGED << repo, repo_data, output, server, pages, all_entries,
                    empty_page_found, inflight, result_pages, requested >>

\* lines 172-182: each count is printed only if the collection is non-empty
CountLine(label, r) == IF Truthy(r) THEN << << label, Len(r.val) >> >> ELSE << >>

\* mutant: the counts are printed in the order the collections were fetched
CountLinesInFetchOrder(res) ==
    CountLine("Total commits", res[1]) \o CountLine("Open issues", res[2])
      \o CountLine("Closed issues", res[3]) \o CountLine("No. of contributors", res[4])

CountLines(res) ==
    CountLine("No. of contributors", res[4]) \o CountLine("Open issues", res[2])
      \o CountLine("Closed issues", res[3]) \o CountLine("Total commits", res[1])

PrintCounts ==
    /\ pc = "print"
    /\ output' = output \o CountLines(results)
    /\ pc' = "done"
    /\ UNCHANGED << repo, repo_data, call, results, server, fpc, pages, all_entries,
                    empty_page_found, inflight, result_pages, requested >>

\* line 185: the exception has left main; asyncio.run cancels the requests
\* still pending and ends with the exception
RunEnds ==
    /\ pc = "unwinding"
    /\ pc' = "crashed"
    /\ inflight' = {}
    /\ UNCHANGED << mainVars, server, fpc, pages, all_entries, empty_page_found,
                    result_pages, requested >>

(***************************************************************************)
(* Specifications.  Spec is a whole run of main.  SpecFetch is one call of *)
(* get_entries_of_type_parallel, main's first, against a wider family of   *)
(* resources, up to the point where the call returns or its exception has  *)
(* entered main.                                                           *)
(***************************************************************************)
IdleFetch ==
    /\ fpc = "idle"
    /\ pages = 1
    /\ all_entries = << >>
    /\ empty_page_found = FALSE
    /\ inflight = {}
    /\ result_pages = [ i \in 1 .. BatchSize |-> NotDone ]

Init ==
    /\ repo \in RepoKinds
    /\ pc = "start"
    /\ repo_data = None
    /\ output = << >>
    /\ call = 1
    /\ results = [ c \in 1 .. Len(Calls) |-> None ]
    /\ server = [ K |-> 0, bad |-> "empty", stray |-> FALSE, size |-> 1 ]
    /\ requested = << >>
    /\ IdleFetch

FetchSteps ==
    \/ Dispatch
    \/ \E i \in 1 .. BatchSize : Resolve(i)
    \/ ScanRound
    \/ GatherRaises

Next ==
    \/ GetRepoData
    \/ PrintSummary
    \/ CallFetch
    \/ FetchSteps
    \/ ReturnFetch
    \/ PrintCounts
    \/ RunEnds

Spec == Init /\ [][Next]_vars

\* a fetch that raises hands no entry to its caller: one entry per page
\* there, and no data behind the first bad page
FetchServers ==
    Servers(MaxK, MaxPerPage, BadKinds \ RaisingKinds, BOOLEAN)
      \cup Servers(MaxK, 1, RaisingKinds, { FALSE })

\* main has printed the repository summary and enters its first fetch
InitFetch ==
    /\ repo = "ok"
    /\ pc = "fetch"
    /\ repo_data = Some(RepoFields)
    /\ output = SummaryLines(Some(RepoFields))
    /\ call = 1
    /\ results = [ c \in 1 .. Len(Calls) |-> None ]
    /\ server \in FetchServers
    /\ requested = << >>
    /\ fpc = "dispatch"
    /\ pages = 1
    /\ all_entries = << >>
    /\ empty_page_found = FALSE
    /\ inflight = {}
    /\ result_pages = [ i \in 1 .. BatchSize |-> NotDone ]

NextFetch == FetchSteps

SpecFetch == InitFetch /\ [][NextFetch]_vars

\* one call of the fetch against a narrower family of resources
LiveServers == Servers(MaxKLive, 1, BadKinds, { FALSE })

InitLive ==
    /\ repo = "ok"
    /\ pc = "fetch"
    /\ repo_data = Some(RepoFields)
    /\ output = SummaryLines(Some(RepoFields))
    /\ call = 1
    /\ results = [ c \in 1 .. Len(Calls) |-> None ]
    /\ server \in LiveServers
    /\ requested = << >>
    /\ fpc = "dispatch"
    /\ pages = 1
    /\ all_entries = << >>
    /\ empty_page_found = FALSE
    /\ inflight = {}
    /\ result_pages = [ i \in 1 .. BatchSize |-> NotDone ]

\* the event loop runs every coroutine that can run, and the timeout of a
\* request (timeout=10) makes every request resolve
SpecLive == InitLive /\ [][NextFetch]_vars /\ WF_vars(NextFetch)

(***************************************************************************)
(* get_entries_of_type: the sequential fetch, one page at a time.          *)
(***************************************************************************)
\* lines 120-140: the loop from `page` on, with all_entries = acc.  requests.get
\* is called without a timeout, so a request never answered blocks the call
\* for ever; requests.get and response.json are not guarded, so their
\* exceptions leave the function.  `value` is all_entries at that point
RECURSIVE SequentialLoop(_, _, _)
SequentialLoop(s, page, acc) ==
    LET r == Response(s, page) IN
    IF ~r.answered
    THEN [ raised |-> FALSE, blocked |-> TRUE, value |-> acc ]
    ELSE IF r.transport
    THEN [ raised |-> TRUE, blocked |-> FALSE, value |-> acc ]
    ELSE IF r.status = 200
    THEN IF ~r.json_ok
         THEN [ raised |-> TRUE, blocked |-> FALSE, value |-> acc ]
         ELSE IF r.body = << >>
         THEN [ raised |-> FALSE, blocked |-> FALSE, value |-> acc ]
         ELSE SequentialLoop(s, page + 1, acc \o r.body)
    ELSE [ raised |-> FALSE, blocked |-> FALSE, value |-> acc ]

\* mutant: the sequential fetch starts at page 2
get_entries_of_type_from_page_2(s) == SequentialLoop(s, 2, << >>)

\* lines 109-142
get_entries_of_type(s) == SequentialLoop(s, 1, << >>)

(***************************************************************************)
(* What the remote API holds, for stating the properties.                  *)
(***************************************************************************)
IsDataKind(k) == k \in { "data", "data_noread" }

\* the entries of the data pages lo..hi of resource s, in page order
RECURSIVE ValidEntries(_, _, _)
ValidEntries(s, lo, hi) ==
    IF lo > hi THEN << >>
    ELSE (IF IsDataKind(Kind(s, lo)) THEN PageBody(lo, s.size) ELSE << >>)
           \o ValidEntries(s, lo + 1, hi)

\* the entries of pages lo..hi, every one of them taken as a data page
RECURSIVE ConcatPages(_, _, _)
ConcatPages(s, lo, hi) ==
    IF lo > hi THEN << >> ELSE PageBody(lo, s.size) \o ConcatPages(s, lo + 1, hi)

\* the number of requests issued when the round of request number p is out
RoundEnd(p) == ((p - 1) \div BatchSize) * BatchSize + BatchSize

\* request i of the current round has resolved and its result is in result_pages
Resolved(i) ==
    /\ fpc \in { "gather", "returned", "raised" }
    /\ result_pages[i] # NotDone

\* what the remote API answers to request i of the current round
AnswerOf(i) == Response(server, RequestOf(i).page)

(***************************************************************************)
(* C1: for a resource with exactly K pages of data (pages 1..K) and only   *)
(* empty or erroring pages behind them, the fetch returns exactly the      *)
(* entries of pages 1..K, in order, for K in {0, 1, 9, 10, 11}.            *)
(***************************************************************************)
C1_ReturnsExactlyKPages ==
    (fpc = "returned" /\ ~server.stray /\ server.K \in { 0, 1, 9, 10, 11 })
        => all_entries = ConcatPages(server, 1, server.K)

C1_Witness ==
    /\ fpc = "returned"
    /\ ~server.stray
    /\ server.K = 11
    /\ server.bad = "http500"
    /\ Len(all_entries) = 11 * server.size

(***************************************************************************)
(* C2 as stated: with pages 1-3 holding data and page 4 failing or empty,  *)
(* the result holds the entries of pages 1-3 and no request for page 5 or  *)
(* a later page is ever issued.                                            *)
(***************************************************************************)
C2_NoRequestPastPage4 ==
    server.K = 3 =>
        /\ \A i \in 1 .. Len(requested) : requested[i].page <= 4
        /\ fpc = "returned" =>
             SubSeq(all_entries, 1, 3 * server.size) = ConcatPages(server, 1, 3)

(***************************************************************************)
(* C2 amended: with pages 1-3 holding data and page 4 failing or empty,    *)
(* all ten requests of the first round (pages 1..10) are issued, whatever  *)
(* page 4 answers, and no request for page 11 or a later page is ever      *)
(* issued; whenever the fetch returns, its result is the entries of pages  *)
(* 1-3 followed by those of the valid pages among 5..10.                   *)
(***************************************************************************)
C2_PartialRoundThenStop ==
    server.K = 3 =>
        /\ \A i \in 1 .. Len(requested) : requested[i].page <= BatchSize
        /\ fpc # "dispatch" =>
             /\ Len(requested) = BatchSize
             /\ \A i \in 1 .. BatchSize : requested[i].page = i
        /\ fpc = "returned" =>
             /\ SubSeq(all_entries, 1, 3 * server.size) = ConcatPages(server, 1, 3)
             /\ all_entries = ValidEntries(server, 1, BatchSize)

C2_Witness ==
    /\ fpc = "returned"
    /\ server.K = 3
    /\ server.bad = "http404"
    /\ server.stray
    /\ Len(all_entries) = 4 * server.size
    /\ Len(requested) = BatchSize

(***************************************************************************)
(* C3: every element of all_entries comes from the body of a page result   *)
(* whose status is 200 and whose body is non-empty.                        *)
(***************************************************************************)
C3_OnlyValidPages ==
    \A k \in 1 .. Len(all_entries) :
        LET o == http_get_with_aiohttp(Response(server, all_entries[k][1])) IN
        /\ ~o.raised
        /\ o.value[1] = 200
        /\ Truthy(o.value[2])
        /\ \E j \in 1 .. Len(o.value[2].val) : o.value[2].val[j] = all_entries[k]

C3_Witness ==
    /\ fpc = "returned"
    /\ server.bad = "http404"
    /\ all_entries # << >>
    /\ \E i \in 1 .. BatchSize : result_pages[i] = << 404, None, None >>

(***************************************************************************)
(* C4: whatever order the requests of a round complete in, the entries are *)
(* in all_entries in increasing page order, those of an earlier round      *)
(* before those of a later one, each page's entries in their own order.    *)
(***************************************************************************)
EntryBefore(a, b) == a[1] < b[1] \/ (a[1] = b[1] /\ a[2] < b[2])

C4_PageOrder ==
    \A a \in 1 .. Len(all_entries) - 1 :
        EntryBefore(all_entries[a], all_entries[a + 1])

C4_Witness ==
    /\ fpc = "returned"
    /\ server.K = 12
    /\ server.size = 2
    /\ Len(all_entries) >= 24
    /\ all_entries[1] = << 1, 1 >>
    /\ all_entries[24] = << 12, 2 >>

(***************************************************************************)
(* C5 as stated: no exception of any request of the run reaches the top    *)
(* level; main runs to completion.                                         *)
(***************************************************************************)
C5_NothingReachesTopLevel == pc # "crashed"

(***************************************************************************)
(* C6 as stated: when a page request suffers a transport failure, the      *)
(* request yields a failure outcome, the round is terminal and the fetch   *)
(* returns the entries of the valid pages collected so far.                *)
(***************************************************************************)
C6_TransportFailureEndsPagination ==
    ( /\ fpc \notin { "dispatch", "gather" }
      /\ \E i \in 1 .. Len(requested) : Response(server, requested[i].page).transport )
        => /\ fpc = "returned"
           /\ all_entries = ValidEntries(server, 1, Len(requested))

(***************************************************************************)
(* C7: a 404 or 500 answer for a page gives the page result (status, None, *)
(* None), and no request is issued after the round that page belongs to.   *)
(***************************************************************************)
C7_Non200IsTerminal ==
    /\ \A i \in 1 .. BatchSize :
         (Resolved(i) /\ AnswerOf(i).status \in { 404, 500 })
            => result_pages[i] = << AnswerOf(i).status, None, None >>
    /\ \A i \in 1 .. Len(requested) :
         (Response(server, requested[i].page).status \in { 404, 500 })
            => Len(requested) <= RoundEnd(i)
    /\ (fpc = "returned" /\ \E i \in 1 .. BatchSize : result_pages[i][1] \in { 404, 500 })
         => empty_page_found

C7_Witness ==
    /\ fpc = "returned"
    /\ server.bad = "http500"
    /\ server.K = 10
    /\ Len(requested) = 2 * BatchSize
    /\ result_pages[1] = << 500, None, None >>

(***************************************************************************)
(* C8 as stated: for a 200 answer the page result is (200, the body iff    *)
(* the JSON decoded, the raw bytes iff they could be read), in each of the *)
(* four combinations of decode success or failure and read success or      *)
(* failure.                                                                *)
(***************************************************************************)
C8_DecodeAndReadIndependent ==
    \A i \in 1 .. BatchSize :
        (Resolved(i) /\ AnswerOf(i).status = 200) =>
            /\ result_pages[i][1] = 200
            /\ result_pages[i][2] = (IF AnswerOf(i).json_ok THEN Some(AnswerOf(i).body) ELSE None)
            /\ result_pages[i][3] = (IF AnswerOf(i).read_ok THEN Some(AnswerOf(i).raw) ELSE None)

(***************************************************************************)
(* C9: the cursor starts at 1 and advances by 10 after a round without a   *)
(* terminal page: for K data pages followed by empty pages the fetch       *)
(* issues floor(K/10)+1 rounds of 10 requests, for pages 1, 2, 3, ... in   *)
(* order; 15 one-entry pages give 15 entries after 20 requests.            *)
(***************************************************************************)
C9_RoundsOfTen ==
    (~server.stray /\ server.bad = "empty") =>
        /\ \A i \in 1 .. Len(requested) : requested[i].page = i
        /\ fpc \in { "gather", "returned" } => Len(requested) = pages + BatchSize - 1
        /\ fpc = "returned" =>
             /\ Len(requested) = BatchSize * ((server.K \div BatchSize) + 1)
             /\ (server.K = 15 /\ server.size = 1) =>
                    (Len(all_entries) = 15 /\ Len(requested) = 20)

C9_Witness ==
    /\ fpc = "returned"
    /\ ~server.stray
    /\ server.bad = "empty"
    /\ server.K = 15
    /\ server.size = 1
    /\ Len(all_entries) = 15
    /\ Len(requested) = 20

(***************************************************************************)
(* C10: when BASEURL answers a non-200 status, get_repo_data returns None  *)
(* and main gets past the summary without an exception and without         *)
(* printing a repository field.                                            *)
(***************************************************************************)
IsFieldLine(line) == \E f \in 1 .. Len(RepoFields) : line[1] = RepoFields[f]

C10_NoSummaryOn404 ==
    repo \in { "http404", "http500" } =>
        /\ repo_data = None
        /\ \A i \in 1 .. Len(output) : ~IsFieldLine(output[i])
        /\ pc = "crashed" => requested # << >>

C10_Witness ==
    /\ repo = "http404"
    /\ pc = "call"
    /\ call = 1
    /\ repo_data = None
    /\ output = << << "Failed to retrieve repository data", 404 >> >>

(***************************************************************************)
(* C11: main fetches commits, open issues, closed issues and contributors  *)
(* in that order, each fetch returning before the next starts: requests of *)
(* two resources are never in flight together, and no count is printed     *)
(* before all four fetches have returned.                                  *)
(***************************************************************************)
\* the place of a request's resource in main's order
Rank(r) ==
    CASE r.type = "commits" -> 1
      [] r.type = "issues" /\ r.state = "open" -> 2
      [] r.type = "issues" /\ r.state = "closed" -> 3
      [] r.type = "contributors" -> 4
      [] OTHER -> 0

CountLabels == { "No. of contributors", "Open issues", "Closed issues", "Total commits" }

C11_FetchesInSequence ==
    /\ \A i \in 1 .. Len(requested) :
         /\ Rank(requested[i]) \in 1 .. call
         /\ i > 1 => Rank(requested[i - 1]) <= Rank(requested[i])
         /\ \A c \in 1 .. 3 : Rank(requested[i]) > c => results[c].some
    /\ \A i \in inflight : pc \in { "fetch", "unwinding" } /\ Rank(RequestOf(i)) = call
    /\ (\E i \in 1 .. Len(output) : output[i][1] \in CountLabels)
          => (pc = "done" /\ inflight = {} /\ \A c \in 1 .. 4 : results[c].some)
    /\ pc \in { "print", "done" } => \A c \in 1 .. 4 : results[c].some

C11_Witness ==
    /\ pc = "done"
    /\ Len(requested) = 4 * BatchSize
    /\ Rank(requested[1]) = 1
    /\ Rank(requested[BatchSize + 1]) = 2
    /\ Rank(requested[2 * BatchSize + 1]) = 3
    /\ Rank(requested[3 * BatchSize + 1]) = 4
    /\ \E i \in 1 .. Len(output) : output[i][1] \in CountLabels

(***************************************************************************)
(* C12 as stated: after the four fetches the output ends with the counts   *)
(* of contributors, open issues, closed issues and commits, in that order, *)
(* whatever the fetches returned, an empty collection included.            *)
(***************************************************************************)
C12_FourCountsAlways ==
    pc = "done" =>
        /\ Len(output) >= 4
        /\ output[Len(output) - 3] = << "No. of contributors", Len(results[4].val) >>
        /\ output[Len(output) - 2] = << "Open issues", Len(results[2].val) >>
        /\ output[Len(output) - 1] = << "Closed issues", Len(results[3].val) >>
        /\ output[Len(output)] = << "Total commits", Len(results[1].val) >>

(***************************************************************************)
(* C12 amended: after the four fetches the output holds, in the order      *)
(* contributors, open issues, closed issues, commits, the count of each    *)
(* collection that is not empty, and no line for an empty collection.      *)
(***************************************************************************)
\* the place of a count line in the summary, and the collection it counts
CountPlace(line) ==
    CASE line[1] = "No. of contributors" -> 1
      [] line[1] = "Open issues" -> 2
      [] line[1] = "Closed issues" -> 3
      [] line[1] = "Total commits" -> 4
      [] OTHER -> 0

CountedCall == << 4, 2, 3, 1 >>

C12_CountsOfNonEmpty ==
    pc = "done" =>
        /\ \A i \in 1 .. Len(output) :
             CountPlace(output[i]) > 0 =>
                /\ output[i][2] = Len(results[CountedCall[CountPlace(output[i])]].val)
                /\ output[i][2] > 0
                /\ \A j \in 1 .. i - 1 : CountPlace(output[j]) < CountPlace(output[i])
        /\ \A k \in 1 .. 4 :
             results[CountedCall[k]].val # << >>
                => \E i \in 1 .. Len(output) : CountPlace(output[i]) = k

C12_Witness ==
    /\ pc = "done"
    /\ results[1].val # << >>
    /\ results[2].val = << >>
    /\ results[3].val # << >>
    /\ results[4].val # << >>
    /\ Len(output) >= 3
    /\ SubSeq(output, Len(output) - 2, Len(output))
         = << << "No. of contributors", Len(results[4].val) >>,
              << "Closed issues", Len(results[3].val) >>,
              << "Total commits", Len(results[1].val) >> >>

(***************************************************************************)
(* C13: a round is dispatched only when no request of the round before it  *)
(* is unresolved, so at most 10 requests are in flight at any time.        *)
(***************************************************************************)
C13_NoCrossRoundConcurrency ==
    [][ /\ Cardinality(inflight') <= BatchSize
        /\ requested' # requested =>
             /\ inflight = {}
             /\ Len(requested') = Len(requested) + BatchSize
             /\ Len(requested) > 0 => \A i \in 1 .. BatchSize : result_pages[i] # NotDone
      ]_vars

C13_Witness ==
    /\ fpc = "gather"
    /\ Len(requested) = 2 * BatchSize
    /\ Cardinality(inflight) = BatchSize
    /\ \A i \in 1 .. BatchSize : result_pages[i] = NotDone

(***************************************************************************)
(* C14: all_entries and empty_page_found do not change while a request of  *)
(* the current round is in flight; they change only once all ten requests  *)
(* of the round have resolved, whatever each of them resolved to.          *)
(***************************************************************************)
C14_ScanAfterJoin ==
    [][ (all_entries' # all_entries \/ empty_page_found' # empty_page_found) =>
            /\ inflight = {}
            /\ \A i \in 1 .. BatchSize : result_pages[i] # NotDone
      ]_vars

C14_Witness ==
    /\ fpc = "gather"
    /\ pages = BatchSize + 1
    /\ Cardinality(inflight) = 1
    /\ Len(all_entries) = BatchSize * server.size
    /\ ~empty_page_found
    /\ \E i \in 1 .. BatchSize : result_pages[i][1] = 404

(***************************************************************************)
(* C15: every page of a round is evaluated on its own: when the fetch      *)
(* returns, all_entries holds the entries of every requested page that     *)
(* answered 200 with a non-empty body, those behind the first failing or   *)
(* empty page of the last round included; the flag only ends the paging.   *)
(***************************************************************************)
C15_ValidPagesOfTerminalRound ==
    fpc = "returned" =>
        /\ empty_page_found
        /\ all_entries = ValidEntries(server, 1, Len(requested))
        /\ \A i \in 1 .. BatchSize :
             (result_pages[i][1] = 200 /\ Truthy(result_pages[i][2])) =>
                \E k \in 1 .. Len(all_entries) :
                    all_entries[k] = result_pages[i][2].val[1]

C15_Witness ==
    /\ fpc = "returned"
    /\ server.stray
    /\ server.K = 12
    /\ server.bad = "empty"
    /\ all_entries[Len(all_entries)] = << 14, server.size >>
    /\ Len(all_entries) = 13 * server.size

(***************************************************************************)
(* C16: no page is requested twice within one call, and once a page of a   *)
(* round has failed or come back empty no further request is issued.       *)
(***************************************************************************)
\* a request of the current round has failed or come back without entries
RoundHasFailure ==
    \/ fpc = "raised"
    \/ \E i \in 1 .. BatchSize :
         /\ result_pages[i] # NotDone
         /\ ~IsDataKind(Kind(server, RequestOf(i).page))

C16_NoRetries ==
    [][ /\ \A i \in 1 .. Len(requested') - 1 :
             requested'[i].page < requested'[i + 1].page
        /\ RoundHasFailure => requested' = requested
      ]_vars

C16_Witness ==
    /\ fpc = "returned"
    /\ server.K = 8
    /\ server.stray
    /\ server.bad = "http500"
    /\ Len(requested) = BatchSize
    /\ result_pages[9] = << 500, None, None >>
    /\ result_pages[10][1] = 200

(***************************************************************************)
(* C17: when every dispatched request resolves, the fetch ends: it returns *)
(* against a resource that answers some page with a non-200 status or with *)
(* a body that is empty or that json.loads rejects, and it can end by      *)
(* raising only against a resource whose requests raise.                   *)
(***************************************************************************)
C17_FetchTerminates ==
    <>( \/ fpc = "returned"
        \/ fpc = "raised" /\ server.bad \in RaisingKinds )

C17_Witness ==
    /\ fpc = "returned"
    /\ server.K = 10
    /\ server.bad = "http404"
    /\ pages = BatchSize + 1
    /\ Len(requested) = 2 * BatchSize
    /\ empty_page_found

(***************************************************************************)
(* C18: against the same resource, when both fetches return (no request    *)
(* raises, none is left unanswered), what the sequential fetch returns is  *)
(* a prefix of what the parallel fetch returns, and the two are equal when *)
(* no page behind the first empty or non-200 page holds data.              *)
(***************************************************************************)
IsPrefix(a, b) == Len(a) <= Len(b) /\ SubSeq(b, 1, Len(a)) = a

C18_SequentialIsPrefixOfParallel ==
    ( /\ fpc = "returned"
      /\ ~get_entries_of_type(server).raised
      /\ ~get_entries_of_type(server).blocked ) =>
        /\ IsPrefix(get_entries_of_type(server).value, all_entries)
        /\ ~server.stray => get_entries_of_type(server).value = all_entries
        /\ get_entries_of_type(server).value = ConcatPages(server, 1, server.K)

C18_Witness ==
    /\ fpc = "returned"
    /\ server.stray
    /\ server.K = 11
    /\ server.bad = "empty"
    /\ ~get_entries_of_type(server).raised
    /\ ~get_entries_of_type(server).blocked
    /\ Len(get_entries_of_type(server).value) = 11 * server.size
    /\ Len(all_entries) = 12 * server.size

====
